---- MODULE Spec2Model ----
(***************************************************************************)
(* Model of the BNK archive subsystem of UltimatePinballPatch.py:           *)
(* PatchTool's primitive readers, BNKEntry (clone, rename, decompress), and *)
(* BNKArchive (load, lookup, add/replace/remove, save).                     *)
(*                                                                          *)
(* Bytes are naturals 0..255 and a bytes object is a sequence of them.      *)
(* A Python str is a sequence of code points.  Python objects that are      *)
(* shared by reference (BNKEntry instances) live in `heap`; the archive's   *)
(* list and the caller hold object ids.                                     *)
(***************************************************************************)
EXTENDS Integers, Sequences, FiniteSets, TLC

(***************************************************************************)
(* Program constants                                                        *)
(***************************************************************************)
NameLen == 32
RecordLen == 48
FooterLen == 18
MagicLen == 14
\* b"Wildfire\0\0\0\0\x01\0"
Magic == <<87, 105, 108, 100, 102, 105, 114, 101, 0, 0, 0, 0, 1, 0>>

(***************************************************************************)
(* Bounds of the model                                                      *)
(***************************************************************************)
MaxEntries == 2     \* entries in one archive

(***************************************************************************)
(* Sequences                                                                *)
(***************************************************************************)
Range(s) == {s[i] : i \in 1..Len(s)}

Min2(a, b) == IF a < b THEN a ELSE b

Max2(a, b) == IF a > b THEN a ELSE b

Zeros(n) == [i \in 1..n |-> 0]

RECURSIVE Concat(_)
Concat(ss) == IF ss = <<>> THEN <<>> ELSE Head(ss) \o Concat(Tail(ss))

RECURSIVE SumLen(_)
SumLen(ss) == IF ss = <<>> THEN 0 ELSE Len(Head(ss)) + SumLen(Tail(ss))

\* Python's data[a:b]: negative indices count from the end, both ends are
\* clamped to the sequence, an empty range gives an empty result.
PySliceIndex(i, n) == IF i < 0 THEN Max2(i + n, 0) ELSE Min2(i, n)

PySlice(data, a, b) ==
    LET lo == PySliceIndex(a, Len(data))
        hi == PySliceIndex(b, Len(data))
    IN  IF hi <= lo THEN <<>> ELSE SubSeq(data, lo + 1, hi)

\* bytes.find(0): 0-based position of the first zero byte, -1 if none
FindNull(data) ==
    IF \E i \in 1..Len(data) : data[i] = 0
    THEN (CHOOSE i \in 1..Len(data) : data[i] = 0 /\ \A j \in 1..(i - 1) : data[j] # 0) - 1
    ELSE -1

\* bytes < bytes: lexicographic comparison
RECURSIVE BytesLess(_, _)
BytesLess(a, b) ==
    IF b = <<>> THEN FALSE
    ELSE IF a = <<>> THEN TRUE
    ELSE IF a[1] # b[1] THEN a[1] < b[1]
    ELSE BytesLess(Tail(a), Tail(b))

(***************************************************************************)
(* PatchTool primitive readers                                              *)
(***************************************************************************)
\* int.from_bytes(b, byteorder='little', signed=False)
RECURSIVE FromBytesLE(_)
FromBytesLE(b) == IF b = <<>> THEN 0 ELSE b[1] + 256 * FromBytesLE(Tail(b))

read_uint32(data, offset) == FromBytesLE(PySlice(data, offset, offset + 4))

read_byte_array(data, offset, size) == PySlice(data, offset, offset + size)

\* struct.pack('<I', x) for 0 <= x < 2^32
PackU32(x) == <<x % 256, (x \div 256) % 256, (x \div 65536) % 256, (x \div 16777216) % 256>>

(***************************************************************************)
(* str <-> bytes                                                            *)
(***************************************************************************)
\* str.encode('utf-8') for code points below 0x800
Utf8EncodeChar(c) ==
    IF c < 128 THEN <<c>> ELSE <<192 + (c \div 64), 128 + (c % 64)>>

RECURSIVE Utf8Encode(_)
Utf8Encode(s) == IF s = <<>> THEN <<>> ELSE Utf8EncodeChar(Head(s)) \o Utf8Encode(Tail(s))

\* bytes.decode('utf-8'): one- and two-byte sequences decode, anything else
\* (stray continuation byte, overlong or truncated sequence, lead byte of a
\* longer form than the model's alphabet uses) raises UnicodeDecodeError.
RECURSIVE Utf8Valid(_)
Utf8Valid(b) ==
    IF b = <<>> THEN TRUE
    ELSE IF b[1] < 128 THEN Utf8Valid(Tail(b))
    ELSE IF b[1] >= 194 /\ b[1] <= 223
         THEN Len(b) >= 2 /\ b[2] >= 128 /\ b[2] <= 191 /\ Utf8Valid(Tail(Tail(b)))
    ELSE FALSE

RECURSIVE Utf8Decode(_)
Utf8Decode(b) ==
    IF b = <<>> THEN <<>>
    ELSE IF b[1] < 128 THEN <<b[1]>> \o Utf8Decode(Tail(b))
    ELSE <<(b[1] - 192) * 64 + (b[2] - 128)>> \o Utf8Decode(Tail(Tail(b)))

\* str.isspace() for the code points below 0x800
IsSpace(c) == c \in {9, 10, 11, 12, 13, 28, 29, 30, 31, 32, 133, 160}

RECURSIVE LStrip(_)
LStrip(s) == IF s # <<>> /\ IsSpace(Head(s)) THEN LStrip(Tail(s)) ELSE s

RECURSIVE RStrip(_)
RStrip(s) ==
    IF s # <<>> /\ IsSpace(s[Len(s)]) THEN RStrip(SubSeq(s, 1, Len(s) - 1)) ELSE s

\* str.strip()
Strip(s) == RStrip(LStrip(s))

\* str.casefold() for the code points below 0x100 and for U+017F, the long s
CasefoldChar(c) ==
    IF c >= 65 /\ c <= 90 THEN <<c + 32>>
    ELSE IF c = 383 THEN <<115>>
    ELSE IF c >= 192 /\ c <= 222 /\ c # 215 THEN <<c + 32>>
    ELSE IF c = 223 THEN <<115, 115>>
    ELSE IF c = 181 THEN <<956>>
    ELSE <<c>>

RECURSIVE Casefold(_)
Casefold(s) == IF s = <<>> THEN <<>> ELSE CasefoldChar(Head(s)) \o Casefold(Tail(s))

\* PatchTool.read_string: the bytes before the first null byte
ReadStringBytes(data) ==
    IF FindNull(data) # -1 THEN SubSeq(data, 1, FindNull(data)) ELSE data

\* PatchTool.read_string raises UnicodeDecodeError on these bytes
ReadStringRaises(data) == ~Utf8Valid(ReadStringBytes(data))

\* PatchTool.read_string: decoded and stripped
read_string(data) == Strip(Utf8Decode(ReadStringBytes(data)))

(***************************************************************************)
(* Values                                                                   *)
(***************************************************************************)
\* Python's None where a bytes object is expected: no bytes object equals it
None == <<-1>>

\* A call argument that is a str, or a bytes object
Str(s) == [t |-> "str", v |-> s]

Bytes(b) == [t |-> "bytes", v |-> b]

\* the argument shape of the overloads of add_entry/replace_entry that take
\* no name: they use entry.name
OwnName == [t |-> "own", v |-> <<>>]

\* the fields of a BNKEntry() before anything is assigned; also the content of
\* an object id that is not in use
Blank == [name |-> None, data |-> None, uncompressedSize |-> 0, isCompressed |-> FALSE]

\* two archives and the caller's own entry
ObjIds == 1..(2 * MaxEntries + 1)

VARIABLES
    heap,       \* object id -> fields of that BNKEntry
    entries,    \* BNKArchive.entries of the archive: list of object ids
    other,      \* entries of a second BNKArchive constructed on the same path
    held,       \* the BNKEntry object the caller's variable refers to (0: None)
    file,       \* bytes of the file at archivePath
    last,       \* the last call: operation, arguments, exception, state before
    saves       \* the files save wrote since the entries last changed

vars == <<heap, entries, other, held, file, last, saves>>

\* The entries of a list as values, in list order
Values(h, es) == [i \in 1..Len(es) |-> h[es[i]]]

InUse == Range(entries) \cup Range(other) \cup ({held} \ {0})

\* A new object gets the lowest id that nothing refers to (0: none is left)
NewId(used) ==
    IF ObjIds \subseteq used THEN 0
    ELSE CHOOSE i \in ObjIds : i \notin used /\ \A j \in ObjIds : j < i => j \in used

(***************************************************************************)
(* BNKEntry                                                                 *)
(***************************************************************************)
\* BNKEntry.clone: the fields of the copy
clone(e) ==
    [name |-> IF e.name # None /\ e.name # <<>> THEN e.name ELSE None,
     data |-> IF e.data # None /\ e.data # <<>> THEN e.data ELSE None,
     uncompressedSize |-> e.uncompressedSize,
     isCompressed |-> e.isCompressed]

\* BNKEntry.rename raises ValueError for this str
RenameRaises(newName) == Len(Utf8Encode(newName)) > NameLen

\* BNKEntry.rename: the name assigned
PaddedName(newName) == Utf8Encode(newName) \o Zeros(NameLen - Len(Utf8Encode(newName)))

rename(e, newName) == [e EXCEPT !.name = PaddedName(newName)]

(***************************************************************************)
(* BNKEntry.decompress                                                      *)
(*                                                                          *)
(* The state of one decoding pass is a record: i, the 0-based read position *)
(* in self.data; out, decompressed_data; buf, dest_buffer as the function   *)
(* of the positions assigned so far (every other position of the bytearray  *)
(* holds the 0 it was created with); ptr, buffer_pointer.                    *)
(***************************************************************************)
HistoryLen == 4096

InitialPointer == 4078

\* a dest_buffer that was created filled with spaces
BufAtSpaces(buf, pos) == IF pos \in DOMAIN buf THEN buf[pos] ELSE 32

\* dest_buffer[pos]
BufAt(buf, pos) == IF pos \in DOMAIN buf THEN buf[pos] ELSE 0

\* decompressed_data.append(byte); dest_buffer[buffer_pointer] = byte;
\* buffer_pointer = (buffer_pointer + 1) & 0xFFF
\* (s and b name the values of st and byte, so that each is worked out once)
Emit(st, byte) ==
    CHOOSE after \in
        {[s EXCEPT !.out = Append(@, b),
                   !.buf = [pos \in DOMAIN @ \cup {s.ptr} |-> IF pos = s.ptr THEN b ELSE @[pos]],
                   !.ptr = (@ + 1) % HistoryLen] : s \in {st}, b \in {byte}} : TRUE

\* a copy that reads all its bytes before it writes the first
CopyRefSnapshot(st, offset, j, length) ==
    [st EXCEPT
        !.out = @ \o [k \in 1..(length - j) |-> BufAt(st.buf, (offset + j + k - 1) % HistoryLen)],
        !.buf = [pos \in DOMAIN @ \cup {(st.ptr + k) % HistoryLen : k \in 0..(length - j - 1)} |->
                    IF \E k \in 0..(length - j - 1) : pos = (st.ptr + k) % HistoryLen
                    THEN BufAt(st.buf, (offset + j + ((pos - st.ptr) % HistoryLen)) % HistoryLen)
                    ELSE @[pos]],
        !.ptr = (@ + length - j) % HistoryLen]

\* for j in range(length), from j on
RECURSIVE CopyRef(_, _, _, _)
CopyRef(st, offset, j, length) ==
    CHOOSE after \in
        {IF j >= length THEN s
         ELSE CopyRef(Emit(s, BufAt(s.buf, (offset + j) % HistoryLen)), offset, j + 1, length)
         : s \in {st}} : TRUE

\* DecodeGroup with seven operations to a control byte
RECURSIVE DecodeGroupOfSeven(_, _, _, _)
DecodeGroupOfSeven(data, st, control_byte, bit) ==
    IF bit >= 7 \/ st.i >= Len(data) THEN st
    ELSE IF (control_byte \div (2 ^ bit)) % 2 = 1
    THEN DecodeGroupOfSeven(data, Emit([st EXCEPT !.i = @ + 1], data[st.i + 1]), control_byte, bit + 1)
    ELSE IF st.i + 1 >= Len(data) THEN st
    ELSE LET offset == (data[st.i + 2] \div 16) * 256 + data[st.i + 1]
             length == (data[st.i + 2] % 16) + 3
         IN  DecodeGroupOfSeven(data, CopyRef([st EXCEPT !.i = @ + 2], offset, 0, length),
                                control_byte, bit + 1)

\* for bit in range(8), from bit on
RECURSIVE DecodeGroup(_, _, _, _)
DecodeGroup(data, st, control_byte, bit) ==
    CHOOSE after \in
        {IF bit >= 8 \/ s.i >= Len(data) THEN s
         ELSE IF (control_byte \div (2 ^ bit)) % 2 = 1
         THEN DecodeGroup(data, Emit([s EXCEPT !.i = @ + 1], data[s.i + 1]), control_byte, bit + 1)
         ELSE IF s.i + 1 >= Len(data) THEN s
         ELSE LET offset == (data[s.i + 2] \div 16) * 256 + data[s.i + 1]
                  length == (data[s.i + 2] % 16) + 3
              IN  DecodeGroup(data, CopyRef([s EXCEPT !.i = @ + 2], offset, 0, length),
                              control_byte, bit + 1)
         : s \in {st}} : TRUE

\* DecodeIteration without the step over the control byte
DecodeIterationInPlace(data, st) == DecodeGroup(data, st, data[st.i + 1], 0)

\* one iteration of the outer loop: the control byte and its group
DecodeIteration(data, st) == DecodeGroup(data, [st EXCEPT !.i = @ + 1], data[st.i + 1], 0)

\* while i < len(self.data)
RECURSIVE DecodeFrom(_, _)
DecodeFrom(data, st) ==
    IF st.i >= Len(data) THEN st ELSE DecodeFrom(data, DecodeIteration(data, st))

\* the locals of decompress before the loop
DecodeStart == [i |-> 0, out |-> <<>>, buf |-> <<>>, ptr |-> InitialPointer]

\* bytes(decompressed_data) after the loop
Decoded(data) == DecodeFrom(data, DecodeStart).out

\* decompress decoding whatever isCompressed says
decompress_any(e) ==
    [err |-> IF Len(Decoded(e.data)) # e.uncompressedSize THEN "SizeMismatch" ELSE "none",
     e |-> [e EXCEPT !.data = Decoded(e.data), !.isCompressed = FALSE]]

\* BNKEntry.decompress: the exception raised and the fields it leaves
decompress(e) ==
    IF ~e.isCompressed THEN [err |-> "none", e |-> e]
    ELSE [err |-> IF Len(Decoded(e.data)) # e.uncompressedSize THEN "SizeMismatch" ELSE "none",
          e |-> [e EXCEPT !.data = Decoded(e.data), !.isCompressed = FALSE]]

(***************************************************************************)
(* BNKWrappedEntry: wrap and unwrap                                         *)
(***************************************************************************)
\* the names bound in the module's namespace: its imports and its classes
ModuleGlobals ==
    {"os", "glob", "shutil", "traceback", "pack", "Image", "Fore", "Back", "Style",
     "PatchTool", "BNKEntry", "BNKWrappedEntry", "BNKArchive"}

\* the Base64 alphabet: A-Z, a-z, 0-9, + and /
B64Alphabet ==
    [i \in 1..64 |-> IF i <= 26 THEN 64 + i
                     ELSE IF i <= 52 THEN 70 + i
                     ELSE IF i <= 62 THEN i - 5
                     ELSE IF i = 63 THEN 43 ELSE 47]

\* base64.b64encode(b): four characters for every three bytes, padded with "="
RECURSIVE b64encode(_)
b64encode(b) ==
    IF b = <<>> THEN <<>>
    ELSE IF Len(b) = 1
    THEN <<B64Alphabet[(b[1] \div 4) + 1], B64Alphabet[(b[1] % 4) * 16 + 1], 61, 61>>
    ELSE IF Len(b) = 2
    THEN <<B64Alphabet[(b[1] \div 4) + 1], B64Alphabet[(b[1] % 4) * 16 + (b[2] \div 16) + 1],
           B64Alphabet[(b[2] % 16) * 4 + 1], 61>>
    ELSE <<B64Alphabet[(b[1] \div 4) + 1], B64Alphabet[(b[1] % 4) * 16 + (b[2] \div 16) + 1],
           B64Alphabet[(b[2] % 16) * 4 + (b[3] \div 64) + 1], B64Alphabet[(b[3] % 64) + 1]>>
         \o b64encode(SubSeq(b, 4, Len(b)))

\* the six bits a character of the alphabet stands for
B64Value(c) == CHOOSE v \in 0..63 : B64Alphabet[v + 1] = c

\* base64.b64decode(s) for a correctly padded s over the alphabet
RECURSIVE b64decode(_)
b64decode(s) ==
    IF s = <<>> THEN <<>>
    ELSE LET first == B64Value(s[1]) * 4 + (B64Value(s[2]) \div 16)
             rest == b64decode(SubSeq(s, 5, Len(s)))
         IN  IF s[3] = 61 THEN <<first>>
             ELSE IF s[4] = 61
             THEN <<first, (B64Value(s[2]) % 16) * 16 + (B64Value(s[3]) \div 4)>>
             ELSE <<first, (B64Value(s[2]) % 16) * 16 + (B64Value(s[3]) \div 4),
                    (B64Value(s[3]) % 4) * 64 + B64Value(s[4])>> \o rest

\* BNKEntry.wrap, i.e. BNKWrappedEntry(entry): the exception raised, and the
\* fields of the wrapped entry
wrap(e) ==
    IF "base64" \notin ModuleGlobals THEN [err |-> "NameError", w |-> Blank]
    ELSE IF e.data = None \/ e.name = None THEN [err |-> "TypeError", w |-> Blank]
    ELSE [err |-> "none",
          w |-> [data |-> Utf8Decode(b64encode(e.data)), name |-> Utf8Decode(b64encode(e.name)),
                 uncompressedSize |-> e.uncompressedSize, isCompressed |-> e.isCompressed]]

\* BNKWrappedEntry.unwrap, i.e. BNKEntry(wrappedEntry)
unwrap(w) ==
    IF "base64" \notin ModuleGlobals THEN [err |-> "NameError", e |-> Blank]
    ELSE [err |-> "none",
          e |-> [data |-> b64decode(w.data), name |-> b64decode(w.name),
                 uncompressedSize |-> w.uncompressedSize, isCompressed |-> w.isCompressed]]

\* entry.wrap().unwrap()
wrap_unwrap(e) == IF wrap(e).err # "none" THEN [err |-> wrap(e).err, e |-> Blank] ELSE unwrap(wrap(e).w)

(***************************************************************************)
(* BNKArchive lookup                                                        *)
(***************************************************************************)
\* The loop of get_entry/has_entry from list position i on.  Each iteration
\* decodes the entry's name, then casefolds the argument (bytes has no
\* casefold), then compares.  idx = 0 stands for "no entry matched".
RECURSIVE LookupFrom(_, _, _, _)
LookupFrom(h, es, name, i) ==
    IF i > Len(es) THEN [err |-> "none", idx |-> 0]
    ELSE IF ReadStringRaises(h[es[i]].name) THEN [err |-> "UnicodeDecodeError", idx |-> 0]
    ELSE IF name.t # "str" THEN [err |-> "AttributeError", idx |-> 0]
    ELSE IF Casefold(read_string(h[es[i]].name)) = Casefold(name.v) THEN [err |-> "none", idx |-> i]
    ELSE LookupFrom(h, es, name, i + 1)

get_entry(h, es, name) == LookupFrom(h, es, name, 1)

has_entry(h, es, name) == get_entry(h, es, name).idx # 0

(***************************************************************************)
(* BNKArchive.add_entry / replace_entry / remove_entry                      *)
(*                                                                          *)
(* Each operator gives the outcome of one call on the archive (h, es):      *)
(* err names the exception raised ("none": the call returned), heap and     *)
(* entries are the state it leaves.  `arg` is the name argument (a str, or  *)
(* OwnName for the overloads without a name), `id` the entry argument       *)
(* (0: None), `new` the id a clone would get.                               *)
(***************************************************************************)
\* entry_name after the overload resolution
EntryName(h, arg, id) == IF arg.t = "own" THEN Bytes(h[id].name) ELSE arg

\* Overwrite without the assignment of isCompressed
OverwriteKeepsFlag(h, target, e) ==
    [h EXCEPT ![target] = [@ EXCEPT !.data = e.data, !.uncompressedSize = e.uncompressedSize]]

\* the three assignments that overwrite an existing entry in place
Overwrite(h, target, e) ==
    [h EXCEPT ![target] = [@ EXCEPT !.data = e.data,
                                    !.uncompressedSize = e.uncompressedSize,
                                    !.isCompressed = e.isCompressed]]

\* "if not entry_name" .. "if len(entry.data) == 0": the exception raised by
\* the checks both add_entry and replace_entry start with, "none" if they pass
ValidateArgs(h, arg, id) ==
    IF id = 0 THEN "InvalidArgs"
    ELSE IF EntryName(h, arg, id).v = <<>> \/ EntryName(h, arg, id).v = None THEN "EmptyName"
    ELSE IF h[id].data = None THEN "TypeError"
    ELSE IF h[id].data = <<>> THEN "ZeroData"
    ELSE "none"

\* AppendClone with the clone appended before it is renamed
AppendCloneFirst(h, es, entry_name, id, new) ==
    IF entry_name.t = "str" /\ RenameRaises(entry_name.v)
    THEN [err |-> "NameTooLong", heap |-> [h EXCEPT ![new] = clone(h[id])], entries |-> Append(es, new)]
    ELSE [err |-> "none",
          heap |-> [h EXCEPT ![new] = IF entry_name.t = "str"
                                      THEN rename(clone(h[id]), entry_name.v)
                                      ELSE clone(h[id])],
          entries |-> Append(es, new)]

\* AppendClone with a rename that cuts the name to 32 bytes and never raises
AppendCloneCutName(h, es, entry_name, id, new) ==
    [err |-> "none",
     heap |-> [h EXCEPT ![new] =
                  IF entry_name.t = "str"
                  THEN [clone(h[id]) EXCEPT
                            !.name = SubSeq(Utf8Encode(entry_name.v) \o Zeros(NameLen), 1, NameLen)]
                  ELSE clone(h[id])],
     entries |-> Append(es, new)]

\* the else branch of add_entry: clone, rename unless the name is the entry's
\* own, append
AppendClone(h, es, entry_name, id, new) ==
    IF entry_name.t = "str" /\ RenameRaises(entry_name.v)
    THEN [err |-> "NameTooLong", heap |-> h, entries |-> es]
    ELSE [err |-> "none",
          heap |-> [h EXCEPT ![new] = IF entry_name.t = "str"
                                      THEN rename(clone(h[id]), entry_name.v)
                                      ELSE clone(h[id])],
          entries |-> Append(es, new)]

\* the call reaches the else branch: it passes the checks and finds no entry
ReachesAppend(h, es, arg, id) ==
    /\ ValidateArgs(h, arg, id) = "none"
    /\ get_entry(h, es, EntryName(h, arg, id)) = [err |-> "none", idx |-> 0]

\* add_entry overwriting a found entry whether or not force_replace is set
add_entry_always_replacing(h, es, arg, id, force_replace, new) ==
    LET bad == ValidateArgs(h, arg, id)
        entry_name == EntryName(h, arg, id)
        found == get_entry(h, es, entry_name)
    IN  IF bad # "none" THEN [err |-> bad, heap |-> h, entries |-> es]
        ELSE IF found.err # "none" THEN [err |-> found.err, heap |-> h, entries |-> es]
        ELSE IF found.idx # 0
        THEN [err |-> "none", heap |-> Overwrite(h, es[found.idx], h[id]), entries |-> es]
        ELSE AppendClone(h, es, entry_name, id, new)

add_entry(h, es, arg, id, force_replace, new) ==
    LET bad == ValidateArgs(h, arg, id)
        entry_name == EntryName(h, arg, id)
        found == get_entry(h, es, entry_name)
    IN  IF bad # "none" THEN [err |-> bad, heap |-> h, entries |-> es]
        ELSE IF found.err # "none" THEN [err |-> found.err, heap |-> h, entries |-> es]
        ELSE IF found.idx # 0
        THEN IF ~force_replace
             THEN [err |-> "Duplicate", heap |-> h, entries |-> es]
             ELSE [err |-> "none", heap |-> Overwrite(h, es[found.idx], h[id]), entries |-> es]
        ELSE AppendClone(h, es, entry_name, id, new)

\* replace_entry returning quietly when it finds no entry
replace_entry_lenient(h, es, arg, id) ==
    LET bad == ValidateArgs(h, arg, id)
        found == get_entry(h, es, EntryName(h, arg, id))
    IN  IF bad # "none" THEN [err |-> bad, heap |-> h, entries |-> es]
        ELSE IF found.err # "none" THEN [err |-> found.err, heap |-> h, entries |-> es]
        ELSE IF found.idx = 0 THEN [err |-> "none", heap |-> h, entries |-> es]
        ELSE [err |-> "none", heap |-> Overwrite(h, es[found.idx], h[id]), entries |-> es]

replace_entry(h, es, arg, id) ==
    LET bad == ValidateArgs(h, arg, id)
        found == get_entry(h, es, EntryName(h, arg, id))
    IN  IF bad # "none" THEN [err |-> bad, heap |-> h, entries |-> es]
        ELSE IF found.err # "none" THEN [err |-> found.err, heap |-> h, entries |-> es]
        ELSE IF found.idx = 0 THEN [err |-> "NotFound", heap |-> h, entries |-> es]
        ELSE [err |-> "none", heap |-> Overwrite(h, es[found.idx], h[id]), entries |-> es]

\* entry.name == name: a bytes object never equals a str
NameEquals(entryName, name) == name.t = "bytes" /\ entryName = name.v

\* next((entry for entry in self.entries if entry.name == name), None) as a
\* list position, 0 for None
FirstNamed(h, es, name) ==
    IF \E i \in 1..Len(es) : NameEquals(h[es[i]].name, name)
    THEN CHOOSE i \in 1..Len(es) :
            /\ NameEquals(h[es[i]].name, name)
            /\ \A j \in 1..(i - 1) : ~NameEquals(h[es[j]].name, name)
    ELSE 0

\* list.remove(x): drops the first position holding the object x
RemoveObject(es, x) ==
    LET k == CHOOSE i \in 1..Len(es) : es[i] = x /\ \A j \in 1..(i - 1) : es[j] # x
    IN  SubSeq(es, 1, k - 1) \o SubSeq(es, k + 1, Len(es))

\* remove_entry raising for a missing entry whatever ignore_not_found says
remove_entry_strict(h, es, name, ignore_not_found) ==
    LET k == FirstNamed(h, es, name)
    IN  IF name.t = "none" THEN [err |-> "NullName", heap |-> h, entries |-> es]
        ELSE IF k # 0 THEN [err |-> "none", heap |-> h, entries |-> RemoveObject(es, es[k])]
        ELSE [err |-> "NotFound", heap |-> h, entries |-> es]

\* name.t = "none" is the argument None
remove_entry(h, es, name, ignore_not_found) ==
    LET k == FirstNamed(h, es, name)
    IN  IF name.t = "none" THEN [err |-> "NullName", heap |-> h, entries |-> es]
        ELSE IF k # 0 THEN [err |-> "none", heap |-> h, entries |-> RemoveObject(es, es[k])]
        ELSE IF ~ignore_not_found THEN [err |-> "NotFound", heap |-> h, entries |-> es]
        ELSE [err |-> "none", heap |-> h, entries |-> es]

(***************************************************************************)
(* BNKArchive.save                                                          *)
(***************************************************************************)
\* InsertByName putting x in front of entries with an equal name as well
RECURSIVE InsertBeforeEqual(_, _, _)
InsertBeforeEqual(h, x, sorted) ==
    IF sorted = <<>> THEN <<x>>
    ELSE IF ~BytesLess(h[Head(sorted)].name, h[x].name) THEN <<x>> \o sorted
    ELSE <<Head(sorted)>> \o InsertBeforeEqual(h, x, Tail(sorted))

\* list.sort(key=lambda entry: entry.name) is stable: x goes in front of the
\* first entry whose name is greater than its own
RECURSIVE InsertByName(_, _, _)
InsertByName(h, x, sorted) ==
    IF sorted = <<>> THEN <<x>>
    ELSE IF BytesLess(h[x].name, h[Head(sorted)].name) THEN <<x>> \o sorted
    ELSE <<Head(sorted)>> \o InsertByName(h, x, Tail(sorted))

RECURSIVE SortByName(_, _)
SortByName(h, es) ==
    IF es = <<>> THEN <<>>
    ELSE InsertByName(h, es[Len(es)], SortByName(h, SubSeq(es, 1, Len(es) - 1)))

\* the first loop of save: every entry's data, back to back
DataBlocks(h, es) == Concat([i \in 1..Len(es) |-> h[es[i]].data])

\* one 48-byte directory record
DirectoryRecord(e, offset_from_end) ==
    e.name \o PackU32(offset_from_end) \o PackU32(Len(e.data))
           \o PackU32(e.uncompressedSize) \o PackU32(IF e.isCompressed THEN 1 ELSE 0)

\* WriteRecords taking the entry's data length off before writing its record
RECURSIVE WriteRecordsStepFirst(_, _, _)
WriteRecordsStepFirst(h, es, offset_from_end) ==
    IF es = <<>> THEN [err |-> "none", bytes |-> <<>>]
    ELSE IF Len(h[Head(es)].name) # NameLen THEN [err |-> "BadNameLength", bytes |-> <<>>]
    ELSE LET rest == WriteRecordsStepFirst(h, Tail(es), offset_from_end - Len(h[Head(es)].data))
         IN  [err |-> rest.err,
              bytes |-> DirectoryRecord(h[Head(es)], offset_from_end - Len(h[Head(es)].data))
                            \o rest.bytes]

\* the second loop of save from the entries `es` on: the records written and
\* whether the name check raised
RECURSIVE WriteRecords(_, _, _)
WriteRecords(h, es, offset_from_end) ==
    IF es = <<>> THEN [err |-> "none", bytes |-> <<>>]
    ELSE IF Len(h[Head(es)].name) # NameLen THEN [err |-> "BadNameLength", bytes |-> <<>>]
    ELSE LET rest == WriteRecords(h, Tail(es), offset_from_end - Len(h[Head(es)].data))
         IN  [err |-> rest.err,
              bytes |-> DirectoryRecord(h[Head(es)], offset_from_end) \o rest.bytes]

Footer(n) == Magic \o PackU32(n)

\* AfterData with the first loop leaving offset_from_end alone
AfterDataNoAdvance(h, es, offset_from_end) == offset_from_end

\* offset_from_end after the first loop has added the data length of each of
\* the entries `es` to it
RECURSIVE AfterData(_, _, _)
AfterData(h, es, offset_from_end) ==
    IF es = <<>> THEN offset_from_end
    ELSE AfterData(h, Tail(es), offset_from_end + Len(h[Head(es)].data))

\* save: the order it leaves the list in, the bytes that reach the file, and
\* the exception raised, if any
save(h, es) ==
    LET sorted == SortByName(h, es)
        blocks == DataBlocks(h, sorted)
        recs == WriteRecords(h, sorted, AfterData(h, sorted, Len(sorted) * RecordLen + FooterLen))
    IN  [err |-> recs.err,
         entries |-> sorted,
         file |-> IF recs.err = "none" THEN blocks \o recs.bytes \o Footer(Len(sorted))
                  ELSE blocks \o recs.bytes]

(***************************************************************************)
(* BNKEntry(archiveData, entryOffset) and BNKArchive(archivePath)           *)
(***************************************************************************)
\* the fields read from one directory record, and the exception raised by the
\* check at the end: its message decodes the name first
ParseEntry(archiveData, entryOffset) ==
    LET name == read_byte_array(archiveData, entryOffset, NameLen)
        offsetFromEnd == read_uint32(archiveData, entryOffset + 32)
        compressedSize == read_uint32(archiveData, entryOffset + 36)
        dataStart == Len(archiveData) - offsetFromEnd
    IN  [err |-> IF dataStart < 0 \/ dataStart + compressedSize > Len(archiveData)
                 THEN IF ReadStringRaises(name) THEN "UnicodeDecodeError" ELSE "InvalidOffset"
                 ELSE "none",
         e |-> [name |-> name,
                data |-> read_byte_array(archiveData, dataStart, compressedSize),
                uncompressedSize |-> read_uint32(archiveData, entryOffset + 40),
                isCompressed |-> read_uint32(archiveData, entryOffset + 44) # 0]]

\* the loop of the constructor: `count` more records from entryOffset on;
\* `parsed` counts the BNKEntry constructor calls made
RECURSIVE ParseEntries(_, _, _)
ParseEntries(archiveData, entryOffset, count) ==
    IF count = 0 THEN [err |-> "none", es |-> <<>>, parsed |-> 0]
    ELSE LET first == ParseEntry(archiveData, entryOffset)
             rest == ParseEntries(archiveData, entryOffset + RecordLen, count - 1)
         IN  IF first.err # "none" THEN [err |-> first.err, es |-> <<>>, parsed |-> 1]
             ELSE [err |-> rest.err,
                   es |-> IF rest.err = "none" THEN <<first.e>> \o rest.es ELSE <<>>,
                   parsed |-> 1 + rest.parsed]

\* load going on to the directory whatever the header holds
load_any_header(archiveData) ==
    LET footerStart == Len(archiveData) - FooterLen
        fileCount == read_uint32(archiveData, footerStart + MagicLen)
    IN  ParseEntries(archiveData, Len(archiveData) - FooterLen - fileCount * RecordLen, fileCount)

\* BNKArchive(archivePath) on a file holding archiveData: the exception, or
\* the entries of the new archive as a list of field records
load(archiveData) ==
    LET footerStart == Len(archiveData) - FooterLen
        header == read_byte_array(archiveData, footerStart, MagicLen)
        fileCount == read_uint32(archiveData, footerStart + MagicLen)
    IN  IF header # Magic THEN [err |-> "InvalidFormat", es |-> <<>>, parsed |-> 0]
        ELSE ParseEntries(archiveData, Len(archiveData) - FooterLen - fileCount * RecordLen, fileCount)

(***************************************************************************)
(* Inputs                                                                   *)
(***************************************************************************)
\* 17 times "s", and 17 times the long s: 34 bytes that casefold to the former
ManyS == [i \in 1..(NameLen \div 2 + 1) |-> 115]

ManyLongS == [i \in 1..(NameLen \div 2 + 1) |-> 383]

\* "a", "A", " a", "é", "", a name of 33 bytes and the name of long s
TargetNames ==
    {<<97>>, <<65>>, <<32, 97>>, <<233>>, <<>>, [i \in 1..(NameLen + 1) |-> 97], ManyLongS}

\* names the caller gives its own entries: "é" and the name of 33 bytes
RenameNames == {<<233>>, [i \in 1..(NameLen + 1) |-> 97]}

NameArgs == {Str(s) : s \in TargetNames} \cup {OwnName}

NoName == [t |-> "none", v |-> <<>>]

RemoveArgs ==
    {Str(s) : s \in TargetNames}
        \cup {Bytes(PaddedName(s)) : s \in {t \in TargetNames : ~RenameRaises(t)}}
        \cup {NoName}

\* entries a caller builds: data marked compressed, raw data, empty data
CompressedEntry ==
    [name |-> PaddedName(<<97>>), data |-> <<8, 9>>, uncompressedSize |-> 5, isCompressed |-> TRUE]

RawEntry ==
    [name |-> PaddedName(<<97>>), data |-> <<7>>, uncompressedSize |-> 1, isCompressed |-> FALSE]

EmptyEntry ==
    [name |-> PaddedName(<<97>>), data |-> <<>>, uncompressedSize |-> 0, isCompressed |-> FALSE]

EntryPool == {CompressedEntry, EmptyEntry}

\* A file in the archive layout: the bytes `blob`, one directory record per
\* element of recs (name, start and length of its data, declared size, flag),
\* and the footer
RECURSIVE BuildRecords(_, _)
BuildRecords(recs, fileLength) ==
    IF recs = <<>> THEN <<>>
    ELSE Head(recs).name \o PackU32(fileLength - Head(recs).start) \o PackU32(Head(recs).len)
            \o PackU32(Head(recs).size) \o PackU32(Head(recs).flag)
            \o BuildRecords(Tail(recs), fileLength)

BuildFile(blob, recs) ==
    blob \o BuildRecords(recs, Len(blob) + Len(recs) * RecordLen + FooterLen) \o Footer(Len(recs))

EmptyArchive == BuildFile(<<>>, <<>>)

\* a name that is not UTF-8
BadName == <<255>> \o Zeros(NameLen - 1)

\* the archives the calls start from: empty; one entry "A"; one entry of 17
\* times "s"; an entry whose name does not decode in front of the entry "A"
InitFiles ==
    {EmptyArchive,
     BuildFile(<<5>>, <<[name |-> PaddedName(<<65>>), start |-> 0, len |-> 1, size |-> 1, flag |-> 0]>>),
     BuildFile(<<5>>, <<[name |-> PaddedName(ManyS), start |-> 0, len |-> 1, size |-> 1, flag |-> 0]>>),
     BuildFile(<<5, 6>>, <<[name |-> BadName, start |-> 1, len |-> 1, size |-> 1, flag |-> 0],
                           [name |-> PaddedName(<<65>>), start |-> 0, len |-> 1, size |-> 1, flag |-> 0]>>)}

(***************************************************************************)
(* The archive under a sequence of calls                                    *)
(***************************************************************************)
\* no call is in progress: the caller is about to make its next call
NoCall == [op |-> "idle", name |-> NoName, entry |-> 0, flag |-> FALSE, err |-> "none",
           heap |-> [i \in ObjIds |-> Blank], entries |-> <<>>]

\* the call `op` made in the current state
Call(op) == [NoCall EXCEPT !.op = op, !.heap = heap, !.entries = entries]

\* the heap after BNKArchive(path) built the entries `es`: objects 1..Len(es)
LoadedHeap(es) == [i \in ObjIds |-> IF i <= Len(es) THEN es[i] ELSE Blank]

\* the state after archive = BNKArchive(path) on the file f
Loaded(f) ==
    /\ file = f
    /\ load(f).err = "none"
    /\ heap = LoadedHeap(load(f).es)
    /\ entries = [i \in 1..Len(load(f).es) |-> i]
    /\ other = <<>>
    /\ held = 0
    /\ last = NoCall
    /\ saves = <<>>

Init == \E f \in InitFiles : Loaded(f)

\* objects nothing refers to any more are forgotten
Collect(h, used) == [i \in ObjIds |-> IF i \in used THEN h[i] ELSE Blank]

\* the files saved stay comparable only while the entries are the same
SavesAfter(h, es) == IF Values(h, es) = Values(heap, entries) THEN saves ELSE <<>>

\* at most the last two files
Saved(fs, f) == IF fs = <<>> THEN <<f>> ELSE <<fs[Len(fs)], f>>

\* entry = <a new BNKEntry>: the caller's variable is bound to a new object
MakeEntry(e) ==
    /\ last = NoCall
    /\ LET new == NewId(Range(entries) \cup Range(other))
       IN  /\ heap' = [Collect(heap, Range(entries) \cup Range(other)) EXCEPT ![new] = e]
           /\ held' = new
           /\ last' = [Call("make") EXCEPT !.entry = new]
           /\ saves' = SavesAfter(heap', entries)
    /\ UNCHANGED <<entries, other, file>>

\* entry.rename(newName) on the caller's entry
HeldRename(newName) ==
    /\ last = NoCall
    /\ held # 0
    /\ heap' = IF RenameRaises(newName) THEN heap ELSE [heap EXCEPT ![held] = rename(@, newName)]
    /\ last' = [Call("rename") EXCEPT !.name = Str(newName), !.entry = held,
                                      !.err = IF RenameRaises(newName) THEN "NameTooLong" ELSE "none"]
    /\ saves' = SavesAfter(heap', entries)
    /\ UNCHANGED <<entries, other, held, file>>

AddEntry(arg, id, force_replace) ==
    /\ last = NoCall
    /\ id \in {held, 0}
    /\ arg.t = "own" => id # 0
    /\ ReachesAppend(heap, entries, arg, id) => Len(entries) < MaxEntries
    /\ LET r == add_entry(heap, entries, arg, id, force_replace, NewId(InUse))
       IN  /\ heap' = r.heap
           /\ entries' = r.entries
           /\ last' = [Call("add_entry") EXCEPT !.name = arg, !.entry = id,
                                                !.flag = force_replace, !.err = r.err]
           /\ saves' = SavesAfter(r.heap, r.entries)
    /\ UNCHANGED <<other, held, file>>

ReplaceEntry(arg, id) ==
    /\ last = NoCall
    /\ id \in {held, 0}
    /\ arg.t = "own" => id # 0
    /\ LET r == replace_entry(heap, entries, arg, id)
       IN  /\ heap' = r.heap
           /\ entries' = r.entries
           /\ last' = [Call("replace_entry") EXCEPT !.name = arg, !.entry = id, !.err = r.err]
           /\ saves' = SavesAfter(r.heap, r.entries)
    /\ UNCHANGED <<other, held, file>>

RemoveEntry(name, ignore_not_found) ==
    /\ last = NoCall
    /\ LET r == remove_entry(heap, entries, name, ignore_not_found)
       IN  /\ heap' = Collect(r.heap, Range(r.entries) \cup Range(other) \cup {held})
           /\ entries' = r.entries
           /\ last' = [Call("remove_entry") EXCEPT !.name = name, !.flag = ignore_not_found,
                                                   !.err = r.err]
           /\ saves' = SavesAfter(r.heap, r.entries)
    /\ UNCHANGED <<other, held, file>>

\* archive.save()
Save ==
    /\ last = NoCall
    /\ LET r == save(heap, entries)
       IN  /\ entries' = r.entries
           /\ file' = r.file
           /\ last' = [Call("save") EXCEPT !.err = r.err]
           /\ saves' = Saved(saves, r.file)
    /\ UNCHANGED <<heap, other, held>>

\* x.decompress() on the caller's entry or on an entry of the archive
Decompress(id) ==
    /\ last = NoCall
    /\ id \in Range(entries) \cup ({held} \ {0})
    /\ heap' = [heap EXCEPT ![id] = decompress(heap[id]).e]
    /\ last' = [Call("decompress") EXCEPT !.entry = id, !.err = decompress(heap[id]).err]
    /\ saves' = SavesAfter(heap', entries)
    /\ UNCHANGED <<entries, other, held, file>>

\* entry = archive.clone_entry(name): the caller's variable is bound to the
\* clone of the entry found, or to None; it keeps what it had when the lookup
\* raises
CloneEntry(name) ==
    /\ last = NoCall
    /\ LET found == get_entry(heap, entries, name)
           kept == Range(entries) \cup Range(other)
           new == NewId(kept)
       IN  /\ IF found.err # "none" THEN UNCHANGED <<heap, held>>
              ELSE IF found.idx = 0 THEN heap' = Collect(heap, kept) /\ held' = 0
              ELSE /\ heap' = [Collect(heap, kept) EXCEPT ![new] = clone(heap[entries[found.idx]])]
                   /\ held' = new
           /\ last' = [Call("clone_entry") EXCEPT !.name = name, !.err = found.err]
    /\ saves' = SavesAfter(heap', entries)
    /\ UNCHANGED <<entries, other, file>>

\* entry = entry.wrap().unwrap(): the caller's variable is bound to the entry
\* that comes back; it keeps what it had when a call raises
WrapUnwrap ==
    /\ last = NoCall
    /\ held # 0
    /\ LET r == wrap_unwrap(heap[held])
           new == NewId(InUse)
       IN  /\ IF r.err # "none" THEN UNCHANGED <<heap, held>>
              ELSE heap' = [heap EXCEPT ![new] = r.e] /\ held' = new
           /\ last' = [Call("wrap_unwrap") EXCEPT !.entry = held, !.err = r.err]
    /\ UNCHANGED <<entries, other, file, saves>>

\* entry.decompress() on a compressed entry, one iteration of the outer loop
\* at a time: the call has set up its locals
DecompressBegin ==
    /\ last = NoCall
    /\ held # 0
    /\ heap[held].isCompressed
    /\ last' = [st |-> DecodeStart] @@ [Call("decoding") EXCEPT !.entry = held]
    /\ UNCHANGED <<heap, entries, other, held, file, saves>>

\* the loop condition holds and the body runs once
DecompressIterate ==
    /\ last.op = "decoding"
    /\ last.st.i < Len(heap[last.entry].data)
    /\ last' = [last EXCEPT !.st = DecodeIteration(heap[last.entry].data, @)]
    /\ UNCHANGED <<heap, entries, other, held, file, saves>>

\* the loop condition fails: the assignments and the size check after the loop
DecompressEnd ==
    /\ last.op = "decoding"
    /\ last.st.i >= Len(heap[last.entry].data)
    /\ heap' = [heap EXCEPT ![last.entry] = [@ EXCEPT !.data = last.st.out, !.isCompressed = FALSE]]
    /\ last' = [Call("decompress") EXCEPT
                    !.entry = last.entry,
                    !.err = IF Len(last.st.out) # heap[last.entry].uncompressedSize
                            THEN "SizeMismatch" ELSE "none"]
    /\ saves' = SavesAfter(heap', entries)
    /\ UNCHANGED <<entries, other, held, file>>

\* add_entry on the second archive
AddOther(arg, id, force_replace) ==
    /\ last = NoCall
    /\ id \in {held, 0}
    /\ arg.t = "own" => id # 0
    /\ ReachesAppend(heap, other, arg, id) => Len(other) < MaxEntries
    /\ LET r == add_entry(heap, other, arg, id, force_replace, NewId(InUse))
       IN  /\ heap' = r.heap
           /\ other' = r.entries
           /\ last' = [Call("add_other") EXCEPT !.name = arg, !.entry = id,
                                                !.flag = force_replace, !.err = r.err]
    /\ UNCHANGED <<entries, held, file, saves>>

\* the n lowest ids that `used` does not hold
RECURSIVE FreshIds(_, _)
FreshIds(used, n) ==
    IF n = 0 THEN <<>> ELSE <<NewId(used)>> \o FreshIds(used \cup {NewId(used)}, n - 1)

\* other = BNKArchive(path): a second archive is constructed from the file;
\* when the constructor raises, the variable keeps what it had
LoadOther ==
    /\ last = NoCall
    /\ LET r == load(file)
           keep == Range(entries) \cup ({held} \ {0})
           ids == FreshIds(keep, Len(r.es))
       IN  /\ Len(r.es) <= MaxEntries
           /\ IF r.err = "none"
              THEN /\ other' = ids
                   /\ heap' = [i \in ObjIds |->
                                 IF i \in Range(ids)
                                 THEN r.es[CHOOSE k \in 1..Len(ids) : ids[k] = i]
                                 ELSE IF i \in keep THEN heap[i] ELSE Blank]
              ELSE UNCHANGED <<other, heap>>
           /\ last' = [Call("load_other") EXCEPT !.err = r.err]
    /\ UNCHANGED <<entries, held, file, saves>>

\* the caller has seen the outcome of the call and goes on
Return ==
    /\ last # NoCall
    /\ last.op # "decoding"
    /\ last' = NoCall
    /\ UNCHANGED <<heap, entries, other, held, file, saves>>

Next ==
    \/ Return
    \/ \E e \in EntryPool : MakeEntry(e)
    \/ \E s \in RenameNames : HeldRename(s)
    \/ \E arg \in NameArgs, id \in ObjIds \cup {0}, f \in BOOLEAN : AddEntry(arg, id, f)
    \/ \E arg \in NameArgs, id \in ObjIds \cup {0} : ReplaceEntry(arg, id)
    \/ \E name \in RemoveArgs, ig \in BOOLEAN : RemoveEntry(name, ig)

Spec == Init /\ [][Next]_vars

(***************************************************************************)
(* Saving: entries are added to an archive that starts empty, overwritten   *)
(* and removed, and the archive is saved                                    *)
(***************************************************************************)
\* " a" and "b"
SaveNames == {<<32, 97>>, <<98>>}

SavePool == {CompressedEntry, RawEntry}

InitSave == Loaded(EmptyArchive)

NextSave ==
    \/ Return
    \/ \E e \in SavePool : MakeEntry(e)
    \/ \E s \in SaveNames, f \in BOOLEAN : AddEntry(Str(s), held, f)
    \/ \E s \in SaveNames : RemoveEntry(Bytes(PaddedName(s)), FALSE)
    \/ Save

SpecSave == InitSave /\ [][NextSave]_vars

(***************************************************************************)
(* Insertion order: the same calls of add_entry reach two archives, both    *)
(* constructed on the empty archive file, in any order                      *)
(***************************************************************************)
NextOrder ==
    \/ Return
    \/ \E e \in SavePool : MakeEntry(e)
    \/ \E s \in SaveNames : AddEntry(Str(s), held, FALSE)
    \/ \E s \in SaveNames : AddOther(Str(s), held, FALSE)

SpecOrder == InitSave /\ [][NextOrder]_vars

(***************************************************************************)
(* Round trip: an archive is constructed from a well-formed file and saved, *)
(* and a second archive is constructed from the file it wrote               *)
(***************************************************************************)
\* where a record's data lies in a file whose data area is <<1, 2>>: nowhere,
\* all of it, its second byte, its end, its second byte and the byte after it
TripRegions == {<<0, 0>>, <<0, 2>>, <<1, 1>>, <<2, 0>>, <<1, 2>>}

\* "a" and "b"; raw, or flagged compressed by a flag word that is not 1
TripRecords ==
    {[name |-> PaddedName(n), start |-> r[1], len |-> r[2],
      size |-> IF f = 0 THEN r[2] ELSE 3, flag |-> f] :
        n \in {<<97>>, <<98>>}, r \in TripRegions, f \in {0, 2}}

RECURSIVE SeqsUpTo(_, _)
SeqsUpTo(S, n) ==
    IF n = 0 THEN {<<>>}
    ELSE SeqsUpTo(S, n - 1) \cup {Append(q, x) : q \in {p \in SeqsUpTo(S, n - 1) : Len(p) = n - 1}, x \in S}

TripFiles == {BuildFile(<<1, 2>>, recs) : recs \in SeqsUpTo(TripRecords, MaxEntries)}

InitTrip == \E f \in TripFiles : Loaded(f)

NextTrip ==
    \/ Return
    \/ Save
    \/ LoadOther

SpecTrip == InitTrip /\ [][NextTrip]_vars

(***************************************************************************)
(* Loading: an archive is constructed on a file that may be damaged         *)
(***************************************************************************)
\* where a record says its data lies: at the start of the file; one byte in
\* front of the file; reaching far beyond its end
LoadRegions == {<<0, 1>>, <<-1, 1>>, <<1, 4096>>}

\* "a", or bytes that are not UTF-8
LoadRecords ==
    {[name |-> n, start |-> r[1], len |-> r[2], size |-> r[2], flag |-> 0] :
        n \in {PaddedName(<<97>>), BadName}, r \in LoadRegions}

\* data areas: none, two bytes, and the 15 zero bytes that put a directory of
\* one record more than the file has at offset -33
LoadBlobs == {<<>>, <<1, 2>>, Zeros(RecordLen - NameLen - 1)}

\* b"wildfire\0\0\0\0\x01\0"
BadMagic == [Magic EXCEPT ![1] = 119]

\* a file in the archive layout with this header and count in its footer
FileWith(blob, recs, header, count) ==
    blob \o BuildRecords(recs, Len(blob) + Len(recs) * RecordLen + FooterLen)
         \o header \o PackU32(count)

\* files shorter than a footer: nothing, the header alone, a footer without
\* its first byte
ShortFiles == {<<>>, Magic, Tail(Footer(0))}

\* well-formed files and files whose header is wrong, whose count is one more
\* than the records they hold, or whose records point outside the file
LoadFiles ==
    {FileWith(blob, recs, header, Len(recs) + more) :
        blob \in LoadBlobs, recs \in SeqsUpTo(LoadRecords, MaxEntries),
        header \in {Magic, BadMagic}, more \in {0, 1}}
    \cup ShortFiles

\* no archive has been constructed yet
InitLoad ==
    /\ file \in LoadFiles
    /\ heap = [i \in ObjIds |-> Blank]
    /\ entries = <<>>
    /\ other = <<>>
    /\ held = 0
    /\ last = NoCall
    /\ saves = <<>>

NextLoad ==
    \/ Return
    \/ LoadOther

SpecLoad == InitLoad /\ [][NextLoad]_vars

(***************************************************************************)
(* Decoding: the caller holds one entry and calls decompress on it          *)
(***************************************************************************)
MaxPayload == 10    \* bytes in a stream of literals

\* a stream in which every control bit is set: a control byte 0xFF in front
\* of every eight bytes of the payload
RECURSIVE AllLiteral(_)
AllLiteral(payload) ==
    IF payload = <<>> THEN <<>>
    ELSE IF Len(payload) <= 8 THEN <<255>> \o payload
    ELSE <<255>> \o SubSeq(payload, 1, 8) \o AllLiteral(SubSeq(payload, 9, Len(payload)))

\* 1, 2, 3, ... and 251, 252, ..., 255, 0, 1, ...
Payloads == {[i \in 1..n |-> (first + i) % 256] : n \in 0..MaxPayload, first \in {0, 250}}

\* one group: the literals, then one back-reference (lo, hi)
BackRefStream(lits, lo, hi) == <<2 ^ Len(lits) - 1>> \o lits \o <<lo, hi>>

\* offset 0, length 3; offset 0xFEE, the initial pointer, length 3; offset
\* 0xFED, length 18; offset 0xFFF, length 4
BackRefs == {<<0, 0>>, <<238, 240>>, <<237, 255>>, <<255, 241>>}

BackRefLiterals == {<<>>, <<7>>, <<7, 9>>}

\* entries marked compressed whose declared size is right, or one too high,
\* and an entry that is not compressed
CodecEntries ==
    {[name |-> PaddedName(<<97>>), data |-> AllLiteral(payload),
      uncompressedSize |-> Len(payload) + extra, isCompressed |-> TRUE] :
        payload \in Payloads, extra \in {0, 1}}
    \cup {[name |-> PaddedName(<<97>>), data |-> BackRefStream(lits, r[1], r[2]),
           uncompressedSize |-> Len(lits) + (r[2] % 16) + 3, isCompressed |-> TRUE] :
            lits \in BackRefLiterals, r \in BackRefs}
    \cup {RawEntry}

InitCodec ==
    /\ \E e \in CodecEntries : heap = [i \in ObjIds |-> IF i = 1 THEN e ELSE Blank]
    /\ held = 1
    /\ entries = <<>>
    /\ other = <<>>
    /\ file = EmptyArchive
    /\ last = NoCall
    /\ saves = <<>>

NextCodec ==
    \/ Return
    \/ Decompress(held)

SpecCodec == InitCodec /\ [][NextCodec]_vars

(***************************************************************************)
(* Sizes: an archive is loaded, entries are added, replaced, removed and    *)
(* decompressed.  Every entry that is not marked compressed, in the files   *)
(* and in the caller's hands, has the size it declares; an entry marked     *)
(* compressed declares what its file or its maker says.                     *)
(***************************************************************************)
\* the stream 0xFF 1 2 declared as 2 bytes, which it decodes to
GoodCompressed ==
    [name |-> PaddedName(<<97>>), data |-> AllLiteral(<<1, 2>>), uncompressedSize |-> 2,
     isCompressed |-> TRUE]

SizePool == {RawEntry, GoodCompressed, CompressedEntry}

\* "a" and "b"
SizeNames == {<<97>>, <<98>>}

\* archives of one entry "a": raw; the stream 0xFF 1 2 declared as 2 bytes;
\* the same stream declared as 3 bytes
SizeFiles ==
    {EmptyArchive,
     BuildFile(<<5>>, <<[name |-> PaddedName(<<97>>), start |-> 0, len |-> 1, size |-> 1, flag |-> 0]>>),
     BuildFile(AllLiteral(<<1, 2>>),
               <<[name |-> PaddedName(<<97>>), start |-> 0, len |-> 3, size |-> 2, flag |-> 1]>>),
     BuildFile(AllLiteral(<<1, 2>>),
               <<[name |-> PaddedName(<<97>>), start |-> 0, len |-> 3, size |-> 3, flag |-> 1]>>)}

InitSize == \E f \in SizeFiles : Loaded(f)

NextSize ==
    \/ Return
    \/ \E e \in SizePool : MakeEntry(e)
    \/ \E n \in SizeNames, f \in BOOLEAN : AddEntry(Str(n), held, f)
    \/ \E n \in SizeNames : ReplaceEntry(Str(n), held)
    \/ \E n \in SizeNames : RemoveEntry(Bytes(PaddedName(n)), FALSE)
    \/ \E id \in ObjIds : Decompress(id)

SpecSize == InitSize /\ [][NextSize]_vars

(***************************************************************************)
(* Cloning: the caller takes clones of the entries of a loaded archive and  *)
(* renames and decompresses them                                            *)
(***************************************************************************)
\* archives of one entry "A": one raw byte; no data at all; the stream
\* 0xFF 1 2
CloneFiles ==
    {BuildFile(<<5>>, <<[name |-> PaddedName(<<65>>), start |-> 0, len |-> 1, size |-> 1, flag |-> 0]>>),
     BuildFile(<<>>, <<[name |-> PaddedName(<<65>>), start |-> 0, len |-> 0, size |-> 0, flag |-> 0]>>),
     BuildFile(AllLiteral(<<1, 2>>),
               <<[name |-> PaddedName(<<65>>), start |-> 0, len |-> 3, size |-> 2, flag |-> 1]>>)}

\* "a", which finds "A", and "b"
CloneNames == {<<97>>, <<98>>}

InitClone == \E f \in CloneFiles : Loaded(f)

NextClone ==
    \/ Return
    \/ \E n \in CloneNames : CloneEntry(Str(n))
    \/ \E n \in TargetNames : HeldRename(n)
    \/ Decompress(held)

SpecClone == InitClone /\ [][NextClone]_vars

(***************************************************************************)
(* Wrapping: the caller holds one entry, wraps and unwraps it, and          *)
(* decompresses it                                                          *)
(***************************************************************************)
NextWrap ==
    \/ Return
    \/ WrapUnwrap
    \/ Decompress(held)

SpecWrap == InitCodec /\ [][NextWrap]_vars

(***************************************************************************)
(* Name lengths: an archive is loaded, entries are added under a name,      *)
(* replaced and removed, and the archive is saved                           *)
(***************************************************************************)
\* the empty archive; one entry "A"; and a file of 12 zero bytes and a footer
\* that counts one record, which puts the directory at offset -36
NameFiles ==
    {EmptyArchive,
     BuildFile(<<5>>, <<[name |-> PaddedName(<<65>>), start |-> 0, len |-> 1, size |-> 1, flag |-> 0]>>),
     FileWith(Zeros(RecordLen - 2 * FooterLen), <<>>, Magic, 1)}

InitNames == \E f \in NameFiles : Loaded(f)

NextNames ==
    \/ Return
    \/ \E e \in SavePool : MakeEntry(e)
    \/ \E n \in SaveNames, f \in BOOLEAN : AddEntry(Str(n), held, f)
    \/ \E n \in SaveNames : ReplaceEntry(Str(n), held)
    \/ \E n \in SaveNames : RemoveEntry(Bytes(PaddedName(n)), FALSE)
    \/ Save

SpecNames == InitNames /\ [][NextNames]_vars

(***************************************************************************)
(* Runs: the caller holds an entry whose stream is one group of literals    *)
(* followed by back-references, each to the position in front of the        *)
(* cursor, and calls decompress on it                                       *)
(***************************************************************************)
MaxRefs == 2        \* back-references in a stream

\* the shortest and the longest copy, and the copy that takes the cursor from
\* 0xFF0, where two literals leave it, to 0
RunLengths == {3, 16, 18}

RunLiterals == SeqsUpTo({7, 9}, 2) \ {<<>>}

RECURSIVE SumOf(_)
SumOf(seq) == IF seq = <<>> THEN 0 ELSE Head(seq) + SumOf(Tail(seq))

\* the two bytes of a back-reference of this length to the position in front
\* of the cursor, when this many bytes have been produced: the low byte of
\* the offset, then its high four bits over length - 3
RefToLast(produced, length) ==
    LET offset == (InitialPointer + produced - 1) % HistoryLen
    IN  <<offset % 256, (offset \div 256) * 16 + (length - 3)>>

RECURSIVE RunRefs(_, _)
RunRefs(produced, lens) ==
    IF lens = <<>> THEN <<>>
    ELSE RefToLast(produced, Head(lens)) \o RunRefs(produced + Head(lens), Tail(lens))

\* one group: the literals, then the back-references
RunStream(lits, lens) == <<2 ^ Len(lits) - 1>> \o lits \o RunRefs(Len(lits), lens)

RunCases == {[lits |-> lits, lens |-> lens] :
                lits \in RunLiterals, lens \in SeqsUpTo(RunLengths, MaxRefs) \ {<<>>}}

RunEntries ==
    {[name |-> PaddedName(<<97>>), data |-> RunStream(c.lits, c.lens),
      uncompressedSize |-> Len(c.lits) + SumOf(c.lens), isCompressed |-> TRUE] : c \in RunCases}

InitRun ==
    /\ \E e \in RunEntries : heap = [i \in ObjIds |-> IF i = 1 THEN e ELSE Blank]
    /\ held = 1
    /\ entries = <<>>
    /\ other = <<>>
    /\ file = EmptyArchive
    /\ last = NoCall
    /\ saves = <<>>

SpecRun == InitRun /\ [][NextCodec]_vars

(***************************************************************************)
(* Decoding step by step: the caller holds one compressed entry and calls   *)
(* decompress on it; the call runs one iteration of its outer loop at a     *)
(* time and, being the only thing that runs, goes on until it returns       *)
(***************************************************************************)
MaxStream == 4      \* bytes in a stream

\* as a control byte: back-references only; one literal, then
\* back-references; literals only
StreamBytes == {0, 1, 255}

\* every stream of up to MaxStream of these bytes: most of them end in the
\* middle of a group or of a back-reference
DecodeEntries ==
    {[name |-> PaddedName(<<97>>), data |-> stream, uncompressedSize |-> Len(stream),
      isCompressed |-> TRUE] : stream \in SeqsUpTo(StreamBytes, MaxStream)}

InitDecode ==
    /\ \E e \in DecodeEntries : heap = [i \in ObjIds |-> IF i = 1 THEN e ELSE Blank]
    /\ held = 1
    /\ entries = <<>>
    /\ other = <<>>
    /\ file = EmptyArchive
    /\ last = NoCall
    /\ saves = <<>>

NextDecode ==
    \/ Return
    \/ DecompressBegin
    \/ DecompressIterate
    \/ DecompressEnd

SpecDecode == InitDecode /\ [][NextDecode]_vars /\ WF_vars(DecompressIterate \/ DecompressEnd)

(***************************************************************************)
(* Properties of load and save                                              *)
(***************************************************************************)
\* how often the list holds an entry with exactly these fields
Count(h, es, v) == Cardinality({i \in 1..Len(es) : h[es[i]] = v})

\* two lists hold the same entries, each as often: none lost, none
\* duplicated, no data under another name
SameCollection(h, es1, es2) ==
    /\ Len(es1) = Len(es2)
    /\ \A i \in 1..Len(es1) : Count(h, es1, h[es1[i]]) = Count(h, es2, h[es1[i]])

\* C1: load, save without mutation, load again: the second load yields the
\* entries of the first, compared by name, data, isCompressed and
\* uncompressedSize.  The first archive holds what the first load built (no
\* call changed it, save only reordered its list); the second archive is
\* constructed from the file the first one saved.
TheoremC1 ==
    (last.op = "load_other" /\ saves # <<>>)
        => /\ last.err = "none"
           /\ SameCollection(heap, other, entries)

\* the saved file was read back with two entries that save had to reorder,
\* one of them flagged compressed, one with data reaching past the data area
WitnessC1 ==
    /\ last.op = "load_other"
    /\ saves # <<>>
    /\ entries = <<2, 1>>
    /\ Len(other) = 2
    /\ \E i \in 1..2 : heap[other[i]].isCompressed
    /\ \E i \in 1..2 : heap[other[i]].data = <<2, 98>>

\* total data length of the entries in front of position k
DataBefore(k) == SumLen([j \in 1..(k - 1) |-> heap[entries[j]].data])

\* 0-based position of the k-th directory record in the file
RecordAt(k) == DataBefore(Len(entries) + 1) + (k - 1) * RecordLen

\* C2: in the file save wrote, for every directory record k in written order,
\* fileLength - offsetFromEnd is the total data length of the entries written
\* before k, where entry k's own data lies; the record's length field is
\* len(data_k); the footer count is the number of entries; the file length is
\* sum(len(data)) + 48*n + 18.
TheoremC2 ==
    last.op = "save"
        => /\ Len(file) = DataBefore(Len(entries) + 1) + RecordLen * Len(entries) + FooterLen
           /\ read_uint32(file, Len(file) - 4) = Len(entries)
           /\ \A k \in 1..Len(entries) :
                LET dataStart == Len(file) - read_uint32(file, RecordAt(k) + 32)
                    data == heap[entries[k]].data
                IN  /\ dataStart = DataBefore(k)
                    /\ read_uint32(file, RecordAt(k) + 36) = Len(data)
                    /\ read_byte_array(file, dataStart, Len(data)) = data
                    /\ read_byte_array(file, RecordAt(k), NameLen) = heap[entries[k]].name

\* a file with two entries of different data lengths was written
WitnessC2 ==
    /\ last.op = "save"
    /\ last.err = "none"
    /\ Len(entries) = 2
    /\ Len(heap[entries[1]].data) = 2
    /\ Len(heap[entries[2]].data) = 1

\* C3: two saves of the archive with no add_entry, replace_entry or
\* remove_entry changing it in between write the same bytes.
TheoremC3 == Len(saves) = 2 => saves[1] = saves[2]

\* the archive saved twice holds two entries of the same name and different
\* data, which only a stable sort keeps in place
WitnessC3 ==
    /\ last.op = "save"
    /\ Len(saves) = 2
    /\ Len(entries) = 2
    /\ heap[entries[1]].name = heap[entries[2]].name
    /\ heap[entries[1]].data # heap[entries[2]].data

\* the names of the list never decrease
Ascending(h, es) == \A i \in 1..(Len(es) - 1) : ~BytesLess(h[es[i + 1]].name, h[es[i]].name)

\* C4: save writes the entries in ascending order of name, and two archives
\* holding the same entries, added in whatever order, save to identical files.
ClaimC4 ==
    /\ Ascending(heap, save(heap, entries).entries)
    /\ SameCollection(heap, entries, other) => save(heap, entries).file = save(heap, other).file

(***************************************************************************)
(* Properties of add_entry, replace_entry and remove_entry                  *)
(***************************************************************************)
\* the archive before the last call, and what the call was given
PreHeap == last.heap

PreEntries == last.entries

Raised == last.err # "none"

\* the entry objects of the list and all their fields are as before the call
EntriesUntouched == entries = PreEntries /\ Values(heap, entries) = Values(PreHeap, PreEntries)

\* C5: every call of add_entry, replace_entry or remove_entry that raises
\* leaves the entry list as it was: the same objects in the same order, each
\* with the same name, data, uncompressedSize and isCompressed.
TheoremC5 ==
    (last.op \in {"add_entry", "replace_entry", "remove_entry"} /\ Raised) => EntriesUntouched

\* add_entry got past the checks and the lookup and raised in rename, the
\* last place it can raise, on an archive that has entries
WitnessC5 ==
    /\ last.op = "add_entry"
    /\ last.err = "NameTooLong"
    /\ Len(entries) > 0

\* position i of the list es, taken out
Without(es, i) == SubSeq(es, 1, i - 1) \o SubSeq(es, i + 1, Len(es))

\* no two entries of the list have names that the lookup treats as equal
UniqueNames(h, es) ==
    \A i, j \in 1..Len(es) :
        (i # j /\ ~ReadStringRaises(h[es[i]].name) /\ ~ReadStringRaises(h[es[j]].name))
            => Casefold(read_string(h[es[i]].name)) # Casefold(read_string(h[es[j]].name))

\* C6: remove_entry(name) with has_entry(name) true removes the first matching
\* entry: one entry fewer, the others unchanged and in order, and has_entry(name)
\* false afterwards when names are unique.
ClaimC6 ==
    (last.op = "remove_entry" /\ has_entry(PreHeap, PreEntries, last.name))
        => /\ ~Raised
           /\ Len(entries) = Len(PreEntries) - 1
           /\ entries = Without(PreEntries, get_entry(PreHeap, PreEntries, last.name).idx)
           /\ Values(heap, entries) = Values(PreHeap, entries)
           /\ UniqueNames(PreHeap, PreEntries) => ~has_entry(heap, entries, last.name)

\* the name equals an entry's name under the lookup's comparison or byte for byte
MatchesSome(h, es, name) ==
    \E i \in 1..Len(es) :
        \/ /\ name.t = "str"
           /\ ~ReadStringRaises(h[es[i]].name)
           /\ Casefold(read_string(h[es[i]].name)) = Casefold(name.v)
        \/ name.t = "bytes" /\ h[es[i]].name = name.v

\* C7: remove_entry(name) with a name that matches no entry raises the
\* not-found error when ignore_not_found is false, and returns with the entry
\* list unchanged when it is true.
TheoremC7 ==
    (last.op = "remove_entry" /\ last.name.t # "none" /\ ~MatchesSome(PreHeap, PreEntries, last.name))
        => /\ EntriesUntouched
           /\ last.err = IF last.flag THEN "none" ELSE "NotFound"

\* an absent name was removed with ignore_not_found from an archive with entries
WitnessC7 ==
    /\ last.op = "remove_entry"
    /\ last.name.t = "str"
    /\ ~MatchesSome(PreHeap, PreEntries, last.name)
    /\ last.flag
    /\ ~Raised
    /\ Len(entries) > 0

\* the call named an entry with a str and get_entry finds it
FoundBefore == last.name.t = "str" /\ get_entry(PreHeap, PreEntries, last.name).idx # 0

\* the position of the entry get_entry finds
FoundIdx == get_entry(PreHeap, PreEntries, last.name).idx

\* the entry argument is a BNKEntry with data in it
GivenData == last.entry # 0 /\ PreHeap[last.entry].data \notin {None, <<>>}

Overwritten(i) ==
    /\ heap[entries[i]].data = PreHeap[last.entry].data
    /\ heap[entries[i]].uncompressedSize = PreHeap[last.entry].uncompressedSize
    /\ heap[entries[i]].isCompressed = PreHeap[last.entry].isCompressed
    /\ heap[entries[i]].name = PreHeap[PreEntries[i]].name

\* every entry but the one at position i is as before
OthersUnchanged(i) == \A k \in 1..Len(entries) : k # i => heap[entries[k]] = PreHeap[PreEntries[k]]

ClaimC10 ==
    /\ (/\ last.op = "add_entry"
        /\ last.name.t = "str"
        /\ GivenData
        /\ last.name.v # <<>>
        /\ ~RenameRaises(last.name.v)
        /\ get_entry(PreHeap, PreEntries, last.name) = [err |-> "none", idx |-> 0])
        => /\ ~Raised
           /\ Len(entries) = Len(PreEntries) + 1
           /\ SubSeq(entries, 1, Len(PreEntries)) = PreEntries
           /\ Values(heap, PreEntries) = Values(PreHeap, PreEntries)
           /\ entries[Len(entries)] # last.entry
           /\ heap[entries[Len(entries)]].name = PaddedName(last.name.v)
           /\ heap[last.entry] = PreHeap[last.entry]
           /\ get_entry(heap, entries, last.name).idx # 0
           /\ LET got == heap[entries[get_entry(heap, entries, last.name).idx]]
              IN  /\ got.data = PreHeap[last.entry].data
                  /\ got.uncompressedSize = PreHeap[last.entry].uncompressedSize
                  /\ got.isCompressed = PreHeap[last.entry].isCompressed
    /\ last.op = "rename" => EntriesUntouched

\* the errors about the name: empty, already in the archive, too long
NameErrors == {"EmptyName", "Duplicate", "NameTooLong"}

\* the call named the entry with a str that encodes to more than 32 bytes
LongNameGiven == last.name.t = "str" /\ Len(Utf8Encode(last.name.v)) > NameLen /\ last.entry # 0

\* C11 as stated: add_entry with a target name whose UTF-8 encoding is longer
\* than 32 bytes fails with a name error, with and without force_replace, and
\* appends no entry.
ClaimC11 ==
    (last.op = "add_entry" /\ LongNameGiven)
        => /\ last.err \in NameErrors
           /\ entries = PreEntries

\* C11 as amended: such a call appends no entry; it fails with the
\* name-too-long error, with and without force_replace and with the entries
\* unchanged, when the supplied entry has data and the lookup finds no entry
\* under the name.  (It is the rename of the clone that checks the length: a
\* call that fails the argument checks raises their error, and a long name the
\* lookup finds, as 17 long s find 17 "s", is treated as any existing name.)
TheoremC11 ==
    (last.op = "add_entry" /\ LongNameGiven)
        => /\ entries = PreEntries
           /\ (GivenData /\ get_entry(PreHeap, PreEntries, last.name) = [err |-> "none", idx |-> 0])
                => (last.err = "NameTooLong" /\ EntriesUntouched)

\* a name of 33 bytes was refused with force_replace set, on an archive that
\* has an entry
WitnessC11 ==
    /\ last.op = "add_entry"
    /\ LongNameGiven
    /\ last.flag
    /\ last.err = "NameTooLong"
    /\ Len(entries) > 0
\* the call named an entry with a str and get_entry finds none under it
AbsentBefore ==
    last.name.t = "str" /\ get_entry(PreHeap, PreEntries, last.name) = [err |-> "none", idx |-> 0]

\* C12 as stated: replace_entry(targetName, entry) raises the not-found error
\* unless an entry matching targetName exists; when it succeeds it has
\* overwritten the data, uncompressedSize and isCompressed of that entry only:
\* its name, the entry count and all other entries are unchanged.
ClaimC12 ==
    (last.op = "replace_entry" /\ last.entry # 0)
        => /\ AbsentBefore => last.err = "NotFound"
           /\ (FoundBefore /\ ~Raised)
                => /\ entries = PreEntries
                   /\ Overwritten(FoundIdx)
                   /\ OthersUnchanged(FoundIdx)

\* C12 as amended: the same when the data of the supplied entry is not empty,
\* and then a call on an existing entry does succeed; with empty data the call
\* raises the zero-length-data error of the argument checks, whether or not an
\* entry matches, and changes nothing.
TheoremC12 ==
    (last.op = "replace_entry" /\ last.entry # 0 /\ last.name.t = "str" /\ last.name.v # <<>>)
        => IF ~GivenData THEN last.err = "ZeroData" /\ EntriesUntouched
           ELSE /\ AbsentBefore => (last.err = "NotFound" /\ EntriesUntouched)
                /\ FoundBefore
                    => /\ ~Raised
                       /\ entries = PreEntries
                       /\ Overwritten(FoundIdx)
                       /\ OthersUnchanged(FoundIdx)

\* one of two entries was replaced, under a name differing in case from the
\* stored one, and got different data
WitnessC12 ==
    /\ last.op = "replace_entry"
    /\ FoundBefore
    /\ GivenData
    /\ ~Raised
    /\ Len(entries) = 2
    /\ PreHeap[PreEntries[FoundIdx]].name # PaddedName(last.name.v)
    /\ heap[entries[FoundIdx]].data # PreHeap[PreEntries[FoundIdx]].data
(***************************************************************************)
(* Properties of the constructor on damaged files                           *)
(***************************************************************************)
\* the four bytes at a 0-based offset that lies inside the file, as a number
U32At(f, offset) == FromBytesLE(SubSeq(f, offset + 1, offset + 4))

\* the count in the footer of a file that has a footer
FooterCount(f) == U32At(f, Len(f) - 4)

\* the header in the footer of a file that has a footer
FooterHeader(f) == SubSeq(f, Len(f) - FooterLen + 1, Len(f) - 4)

\* where the count in the footer puts the first directory record
DirectoryStart(f) == Len(f) - FooterLen - FooterCount(f) * RecordLen

\* C13: constructing an archive on a file that is shorter than a footer, or
\* whose footer count puts the start of the directory in front of the file,
\* raises: no archive is built from reads that were cut to the buffer.
ClaimC13 ==
    (last.op = "load_other" /\ (Len(file) < FooterLen \/ DirectoryStart(file) < 0))
        => (last.err # "none" /\ other = <<>>)

\* the file has a footer with the right header, and the directory its count
\* asks for lies inside the file
WellFramed(f) ==
    /\ Len(f) >= FooterLen
    /\ FooterHeader(f) = Magic
    /\ DirectoryStart(f) >= 0

\* directory record i of a well-framed file points in front of the file or
\* beyond its end
OutOfBounds(f, i) ==
    LET offset == DirectoryStart(f) + (i - 1) * RecordLen
        dataStart == Len(f) - U32At(f, offset + 32)
    IN  dataStart < 0 \/ dataStart + U32At(f, offset + 36) > Len(f)

\* C14: constructing an archive on a file in which some directory record has
\* dataStart = fileLength - offsetFromEnd < 0 or dataStart + length >
\* fileLength raises the bounds error, and no archive is constructed.
ClaimC14 ==
    (/\ last.op = "load_other"
     /\ WellFramed(file)
     /\ \E i \in 1..FooterCount(file) : OutOfBounds(file, i))
        => (last.err = "InvalidOffset" /\ other = <<>>)

\* C15: constructing an archive on a file whose 14-byte header in the footer
\* is not the fixed constant raises the format error before any directory
\* record is parsed: no BNKEntry is constructed, no archive exists.
TheoremC15 ==
    (last.op = "load_other" /\ Len(file) >= FooterLen /\ FooterHeader(file) # Magic)
        => /\ last.err = "InvalidFormat"
           /\ load(file).parsed = 0
           /\ other = <<>>

\* the file refused has a wrong header and two directory records, the first
\* of them in bounds and with a name that decodes
WitnessC15 ==
    /\ last.op = "load_other"
    /\ last.err = "InvalidFormat"
    /\ Len(file) >= FooterLen
    /\ FooterHeader(file) = BadMagic
    /\ FooterCount(file) = 2
    /\ DirectoryStart(file) >= 0
    /\ ~OutOfBounds(file, 1)
    /\ SubSeq(file, DirectoryStart(file) + 1, DirectoryStart(file) + NameLen) = PaddedName(<<97>>)
(***************************************************************************)
(* Properties of decompress                                                 *)
(***************************************************************************)
\* the entry decompress was called on, before the call and now
PreEntry == PreHeap[last.entry]

PostEntry == heap[last.entry]

\* C16: when decompress decodes a compressed entry to a length that is not
\* its uncompressedSize it raises the size error and drops what it decoded:
\* the entry's data and isCompressed are as before the call.
ClaimC16 ==
    (/\ last.op = "decompress"
     /\ PreEntry.isCompressed
     /\ Len(Decoded(PreEntry.data)) # PreEntry.uncompressedSize)
        => /\ last.err = "SizeMismatch"
           /\ PostEntry.data = PreEntry.data
           /\ PostEntry.isCompressed = PreEntry.isCompressed

\* C17: every entry of the archive that is not marked compressed holds as
\* many bytes as its uncompressedSize says, after the load and after every
\* add_entry, replace_entry, remove_entry and decompress.
ClaimC17 ==
    \A i \in 1..Len(entries) :
        ~heap[entries[i]].isCompressed
            => Len(heap[entries[i]].data) = heap[entries[i]].uncompressedSize

\* C18: decompress on a compressed entry whose stream has every control bit
\* set (a control byte 0xFF in front of every eight payload bytes) and whose
\* uncompressedSize is the payload length returns with data equal to the
\* payload, byte for byte, and isCompressed false; so for 0xFF followed by
\* eight bytes.
TheoremC18 ==
    \A payload \in Payloads :
        (/\ last.op = "decompress"
         /\ PreEntry.isCompressed
         /\ PreEntry.data = AllLiteral(payload)
         /\ PreEntry.uncompressedSize = Len(payload))
            => /\ ~Raised
               /\ PostEntry = [PreEntry EXCEPT !.data = payload, !.isCompressed = FALSE]

\* the stream was 0xFF and eight payload bytes
WitnessC18 ==
    /\ last.op = "decompress"
    /\ PreEntry.isCompressed
    /\ PreEntry.data = <<255, 1, 2, 3, 4, 5, 6, 7, 8>>
    /\ PostEntry.data = <<1, 2, 3, 4, 5, 6, 7, 8>>
    /\ ~PostEntry.isCompressed

\* the stream is one group of n <= 2 literals and one back-reference
IsBackRefStream(data) ==
    /\ Len(data) \in 3..5
    /\ data[1] = 2 ^ (Len(data) - 3) - 1

\* the buffer positions assigned before the k-th byte of the output is
\* produced: every byte of the output goes to the buffer as well, the first
\* at the initial pointer
WrittenBefore(k) == {(InitialPointer + m) % HistoryLen : m \in 0..(k - 2)}

\* C19: a back-reference emits a zero byte for every buffer position it
\* reads that the decoding has not written yet: the buffer starts zero-filled
\* on every call, with the pointer at 0xFEE.
TheoremC19 ==
    (last.op = "decompress" /\ PreEntry.isCompressed /\ IsBackRefStream(PreEntry.data))
        => LET data == PreEntry.data
               n == Len(data) - 3
               offset == (data[n + 3] \div 16) * 256 + data[n + 2]
               length == (data[n + 3] % 16) + 3
           IN  /\ Len(PostEntry.data) = n + length
               /\ SubSeq(PostEntry.data, 1, n) = SubSeq(data, 2, n + 1)
               /\ \A j \in 0..(length - 1) :
                    (offset + j) % HistoryLen \notin WrittenBefore(n + j + 1)
                        => PostEntry.data[n + j + 1] = 0

\* after one literal 7, a back-reference of 18 bytes from the position in
\* front of the literal gave 0 for that position and then what it found
WitnessC19 ==
    /\ last.op = "decompress"
    /\ PreEntry.data = BackRefStream(<<7>>, 237, 255)
    /\ SubSeq(PostEntry.data, 1, 4) = <<7, 0, 7, 0>>
    /\ Len(PostEntry.data) = 19

\* C20: decompress on an entry whose isCompressed is false returns without
\* an error and leaves data, name, uncompressedSize and isCompressed as they
\* were; a second decompress on a decoded entry changes nothing.
TheoremC20 ==
    (last.op = "decompress" /\ ~PreEntry.isCompressed)
        => (~Raised /\ heap = PreHeap)

\* decompress was called on an entry that an earlier call had decoded to the
\* eight bytes 1..8
WitnessC20 ==
    /\ last.op = "decompress"
    /\ ~PreEntry.isCompressed
    /\ PreEntry.data = <<1, 2, 3, 4, 5, 6, 7, 8>>
    /\ PreEntry.uncompressedSize = 8
    /\ PostEntry = PreEntry
\* C25: decompress terminates on every input.  Every iteration of the outer
\* loop moves the input index forward; the index never passes the end of the
\* input, and every byte the decoder reads lies in front of the index, so it
\* reads nothing past the end; a call that has started returns, raising
\* nothing but the size error of the check after the loop, also when the
\* input ends in the middle of a group or of a back-reference.
TheoremC25 ==
    /\ [][(last.op = "decoding" /\ last'.op = "decoding") => last'.st.i > last.st.i]_vars
    /\ [](last.op = "decoding" => last.st.i <= Len(heap[last.entry].data))
    /\ [](last.op = "decompress" => last.err \in {"none", "SizeMismatch"})
    /\ (last.op = "decoding") ~> (last.op = "decompress")

\* decompress has returned from a stream that ended inside a back-reference:
\* one literal, then one byte of the two a back-reference takes
WitnessC25 ==
    /\ last.op = "decompress"
    /\ PreEntry.data = <<1, 255, 0>>
    /\ PostEntry.data = <<255>>

\* C26: a back-reference copies byte by byte and writes each byte to the
\* buffer before it reads the next, read position and cursor both modulo
\* 4096: a reference to the position in front of the cursor emits as many
\* copies of the last byte of the output as its length says (3 to 18), also
\* when the copy goes past position 4095 or starts there.
TheoremC26 ==
    \A c \in RunCases :
        (last.op = "decompress" /\ PreEntry.isCompressed
                                /\ PreEntry.data = RunStream(c.lits, c.lens))
            => /\ ~Raised
               /\ PostEntry.data = c.lits \o [k \in 1..SumOf(c.lens) |-> c.lits[Len(c.lits)]]

\* after the literals 7 and 9 the cursor is at 0xFF0: a reference of 18
\* bytes to 0xFEF read its last byte at position 0, where it had written it
\* one step before, and gave eighteen times 9
WitnessC26 ==
    /\ last.op = "decompress"
    /\ PreEntry.data = <<3, 7, 9, 239, 255>>
    /\ PostEntry.data = <<7, 9>> \o [k \in 1..18 |-> 9]

(***************************************************************************)
(* Properties of clone_entry and of wrap and unwrap                         *)
(***************************************************************************)
\* C21: clone_entry(name) returns None when no entry matches; for a matched
\* entry it returns a new object with the name, data, uncompressedSize and
\* isCompressed of that entry, also when its data is empty; renaming or
\* decompressing the copy afterwards leaves the entries of the archive as
\* they were.
ClaimC21 ==
    /\ (last.op = "clone_entry" /\ AbsentBefore) => (held = 0 /\ EntriesUntouched)
    /\ (last.op = "clone_entry" /\ FoundBefore)
        => /\ held # 0
           /\ held \notin Range(entries)
           /\ heap[held] = PreHeap[PreEntries[FoundIdx]]
           /\ EntriesUntouched
    /\ (last.op \in {"rename", "decompress"} /\ last.entry \notin Range(entries))
        => EntriesUntouched
\* C22: for an entry e, e.wrap().unwrap() is an entry with the name, data,
\* uncompressedSize and isCompressed of e.
ClaimC22 ==
    last.op = "wrap_unwrap" => (~Raised /\ heap[held] = PreHeap[last.entry])
(***************************************************************************)
(* Invariants of the entry list                                             *)
(***************************************************************************)
\* C23: from an archive whose names are pairwise distinct under the lookup's
\* comparison, no sequence of add_entry, replace_entry and remove_entry
\* calls, whatever the target names, leads to two entries whose names are
\* equal under that comparison.
ClaimC23 == UniqueNames(heap, entries)
\* C24: after a load that succeeded and any add_entry(name, entry[, force]),
\* replace_entry and remove_entry calls, every entry of the list has a name
\* of exactly 32 bytes, and so save never raises its name-length error after
\* it has written the data blocks.
ClaimC24 ==
    /\ \A i \in 1..Len(entries) : Len(heap[entries[i]].name) = NameLen
    /\ last.op = "save" => last.err # "BadNameLength"

====
